---- MODULE Spec2Model ----
(***************************************************************************)
(* Model of SymbolicPursuitExplainer and SymbolicPursuitExplanation        *)
(* (interpretability_models/symbolic_pursuit_explainer.py).                *)
(*                                                                         *)
(* One Explainer instance is modelled together with its two external       *)
(* collaborators: the opaque model (a callable) and the SymbolicRegressor  *)
(* (the surrogate).  Every public method is one action; a call runs to     *)
(* completion inside its action.  A Python exception is modelled by the    *)
(* `ret` variable: ret.kind = "raise" and ret.exc names the exception.     *)
(* Optional values (Python None, or an attribute that was never assigned)  *)
(* are the empty sequence, a present value v is <<v>>.                     *)
(***************************************************************************)
EXTENDS Integers, Sequences, FiniteSets

VARIABLES
    model,            \* self.model: the opaque model (never written)
    symbolic_model,   \* self.symbolic_model: the SymbolicRegressor
    X_explain,        \* self.X_explain
    has_been_fit,     \* self.has_been_fit
    X_test,           \* self.X_test (absent until measure_fit_quality stores it)
    y_test,           \* self.y_test
    fit_quality,      \* self.fit_quality
    model_fit_quality,\* self.model_fit_quality
    explanation,      \* self.explanation: 0 (absent) or a reference into records
    records,          \* the SymbolicPursuitExplanation objects that are still referenced
    ret,              \* the outcome of the most recent call
    log,              \* the external calls and conversions made by the most recent call
    stdout,           \* what the most recent call printed or rendered
    measured          \* history: some measure_fit_quality call has returned normally

vars == <<model, symbolic_model, X_explain, has_been_fit, X_test, y_test,
          fit_quality, model_fit_quality, explanation, records, ret, log, stdout, measured>>

----------------------------------------------------------------------------
(* Bounds of the model *)

\* number of SymbolicPursuitExplanation objects a caller that keeps the
\* records it is handed may collect
MaxRecords == 2

\* number of rows of a test batch handed to measure_fit_quality when the
\* scores are compared row by row
MaxLen == 2

----------------------------------------------------------------------------
(* Values *)

None == <<>>
Some(v) == <<v>>

\* the two representations of a numeric batch: numpy array, torch tensor
Rep == {"numeric", "tensor"}

\* feature values and labels / predictions
Feat == {0, 1}

\* the labels of a test batch: a value the predictions take and one that no
\* prediction takes
Labels == {0, 2}

\* the rows of an n-row test batch: the feature values in turn
Rows(n) == [i \in 1..n |-> (i - 1) % 2]

\* `for retry in range(2)`
Retries == 2

TaskTypes == {"classification", "regression"}

\* a batch: its representation and its content (one feature value per row)
Batch(rep, data) == [rep |-> rep, data |-> data]

\* the reference points and expansion orders explain is called with
\* (2 is the default order)
ReferencePoints == {0}
Orders == {2}

Tensor_unconverted(x) == x

\* torch.Tensor(x): the result is a tensor whatever x was; the content is kept
Tensor(x) == [x EXCEPT !.rep = "tensor"]

----------------------------------------------------------------------------
(* The external collaborators *)

\* what a call into a collaborator can do: return, reject the representation
\* (TypeError), or fail in any other way (ValueError stands for every
\* exception that is not a TypeError)
Outcome == {"ok", "TypeError", "ValueError"}

\* the opaque models: the representations the callable accepts and the
\* function it computes on one feature value
ModelFns == {[x \in Feat |-> x]}
Models == [accepts : SUBSET Rep, fn : ModelFns]

\* the surrogate as constructed (version 0) and the fits the solver may find
SurrogateVersions == {1, 2}

\* symbolic_model.predict on one row, for each state of the surrogate
SurrogateFn(version) ==
    CASE version = 0 -> [x \in Feat |-> 0]
      [] version = 1 -> [x \in Feat |-> x]
      [] OTHER       -> [x \in Feat |-> 1 - x]

\* self.model(X): one prediction per row
model_call(X) == [i \in DOMAIN X.data |-> model.fn[X.data[i]]]

\* self.symbolic_model.predict(X): one prediction per row
symbolic_model_predict(X) ==
    [i \in DOMAIN X.data |-> SurrogateFn(symbolic_model.version)[X.data[i]]]

\* what a call that hands a batch in representation rep to a collaborator
\* accepting the representations `accepts` does, when e is what the call does
\* once the representation is accepted ("ok", or a failure of another kind)
Outcomes(accepts, e) == [rep \in Rep |-> IF rep \in accepts THEN e ELSE "TypeError"]

\* the outcomes of a call whose representation is accepted
Accepted == {"ok", "ValueError"}

Retried_any_exception(o) == o # "ok"

\* `except TypeError`: the failures a retry loop absorbs
Retried(o) == o = "TypeError"

Event(call, rep, out) == [call |-> call, rep |-> rep, out |-> out]

\* outcome of a call, as seen by the caller
Returned(op, val) == [op |-> op, kind |-> "return", exc |-> "", val |-> val]
Raised(op, exc)   == [op |-> op, kind |-> "raise", exc |-> exc, val |-> None]

----------------------------------------------------------------------------
(* SymbolicPursuitExplainer.__init__ *)

\* Explainer.__init__ of the base class leaves the instance unfit
BaseExplainerInit == FALSE

Init ==
    /\ model \in Models
    /\ X_explain \in [rep : Rep, data : {<<0, 1>>}]
    /\ model_fit_quality = None
    /\ fit_quality = None
    /\ has_been_fit = BaseExplainerInit
    /\ symbolic_model \in [task_type : TaskTypes, accepts : SUBSET Rep, version : {0}]
    /\ X_test = None
    /\ y_test = None
    /\ explanation = 0
    /\ records = <<>>
    /\ ret = Returned("__init__", None)
    /\ log = <<>>
    /\ stdout = <<>>
    /\ measured = FALSE

----------------------------------------------------------------------------
(* The else branch of `if self.has_been_fit` *)

CalledBeforeFit_converting(op, exc) ==
    /\ ret' = Raised(op, exc)
    /\ log' = <<>>
    /\ stdout' = <<>>
    /\ X_explain' = Tensor(X_explain)
    /\ UNCHANGED <<model, symbolic_model, has_been_fit, X_test, y_test,
                   fit_quality, model_fit_quality, explanation, records, measured>>

\* `raise exceptions.<op>CalledBeforeFit(self.has_been_fit)`: the only
\* statement of the branch
CalledBeforeFit(op, exc) ==
    /\ ret' = Raised(op, exc)
    /\ log' = <<>>
    /\ stdout' = <<>>
    /\ UNCHANGED <<model, symbolic_model, X_explain, has_been_fit, X_test,
                   y_test, fit_quality, model_fit_quality, explanation,
                   records, measured>>

----------------------------------------------------------------------------
(* SymbolicPursuitExplainer.fit *)

\* the loop `for retry in range(2): try: symbolic_model.fit(...); break
\* except TypeError: X_explain = torch.Tensor(X_explain)`.
\* out[rep] is what symbolic_model.fit does in this call on a sample in rep.
RECURSIVE fit_for(_, _, _, _)
fit_for(retry, X, out, lg) ==
    IF retry >= Retries
    THEN [X |-> X, raised |-> None, done |-> FALSE, log |-> lg]
    ELSE LET o   == out[X.rep]
             lg1 == Append(lg, Event("symbolic_model.fit", X.rep, o))
         IN  CASE o = "ok" ->
                    [X |-> X, raised |-> None, done |-> TRUE, log |-> lg1]
               [] Retried(o) ->
                    fit_for(retry + 1, Tensor(X), out,
                            Append(lg1, Event("torch.Tensor", X.rep, "ok")))
               [] OTHER ->
                    [X |-> X, raised |-> Some(o), done |-> FALSE, log |-> lg1]

fit_has_been_fit_reset(r) == r.raised = None

\* `self.has_been_fit = True` is reached unless an exception left the loop
fit_has_been_fit(r) == IF r.raised = None THEN TRUE ELSE has_been_fit

fit ==
    \E e \in Accepted :
        LET r == fit_for(0, X_explain, Outcomes(model.accepts, e), <<>>) IN
        /\ X_explain' = r.X
        /\ IF r.done
           THEN \E v \in SurrogateVersions :
                    symbolic_model' = [symbolic_model EXCEPT !.version = v]
           ELSE symbolic_model' = symbolic_model
        /\ has_been_fit' = fit_has_been_fit(r)
        /\ ret' = IF r.raised = None THEN Returned("fit", None)
                                      ELSE Raised("fit", r.raised[1])
        /\ log' = r.log
        /\ stdout' = <<>>
        /\ UNCHANGED <<model, X_test, y_test, fit_quality, model_fit_quality,
                       explanation, records, measured>>

----------------------------------------------------------------------------
(* SymbolicPursuitExplainer.measure_fit_quality *)

RECURSIVE SumTo(_, _)
SumTo(f, n) == IF n = 0 THEN 0 ELSE f[n] + SumTo(f, n - 1)

\* sklearn.metrics.accuracy_score(y, p): the fraction of exact matches,
\* kept as numerator and denominator
accuracy_score(y, p) ==
    [num |-> Cardinality({i \in DOMAIN y.data : y.data[i] = p[i]}),
     den |-> Len(y.data)]

\* sklearn.metrics.mean_squared_error(y, p): (1/n) * sum((p_i - y_i)^2)
mean_squared_error(y, p) ==
    [num |-> SumTo([i \in DOMAIN y.data |-> (p[i] - y.data[i]) * (p[i] - y.data[i])],
                   Len(y.data)),
     den |-> Len(y.data)]

\* the scoring function of the branch `task_type == "classification"` /
\* `task_type == "regression"`
score_always_mse(task_type, y, p) == mean_squared_error(y, p)

score(task_type, y, p) ==
    IF task_type = "classification" THEN accuracy_score(y, p)
                                    ELSE mean_squared_error(y, p)

\* one of the loops `for retry in range(2): try: <score of a prediction>; break
\* except TypeError: X_test = torch.Tensor(X_test); y_test = torch.Tensor(y_test)`.
\* call names the prediction call, out[rep] is what it does on a batch in rep.
RECURSIVE predict_for(_, _, _, _, _, _)
predict_for(retry, X, y, out, call, lg) ==
    IF retry >= Retries
    THEN [X |-> X, y |-> y, raised |-> None, done |-> FALSE, log |-> lg]
    ELSE LET o   == out[X.rep]
             lg1 == Append(lg, Event(call, X.rep, o))
         IN  CASE o = "ok" ->
                    [X |-> X, y |-> y, raised |-> None, done |-> TRUE, log |-> lg1]
               [] Retried(o) ->
                    predict_for(retry + 1, Tensor(X), Tensor(y), out, call,
                                Append(lg1, Event("torch.Tensor", X.rep, "ok")))
               [] OTHER ->
                    [X |-> X, y |-> y, raised |-> Some(o), done |-> FALSE, log |-> lg1]

\* the body of measure_fit_quality under `if self.has_been_fit`: the two
\* loops in turn; the second is not reached when the first raises
measure_body(Xin, yin, out1, out2) ==
    LET task == symbolic_model.task_type
        r1   == predict_for(0, Xin, yin, out1, "symbolic_model.predict", <<>>)
        fq   == IF r1.done
                THEN Some(score(task, r1.y, symbolic_model_predict(r1.X)))
                ELSE fit_quality
        r2   == IF r1.raised = None
                THEN predict_for(0, r1.X, r1.y, out2, "model", r1.log)
                ELSE r1
        mfq  == IF r1.raised = None /\ r2.done
                THEN Some(score(task, r2.y, model_call(r2.X)))
                ELSE model_fit_quality
    IN  [X_test |-> r2.X, y_test |-> r2.y, fit_quality |-> fq,
         model_fit_quality |-> mfq, raised |-> r2.raised, log |-> r2.log]

measure_fit_quality(Xin, yin) ==
        IF has_been_fit
        THEN \E e1 \in Accepted, e2 \in Accepted :
               LET m == measure_body(Xin, yin,
                                     Outcomes(symbolic_model.accepts, e1),
                                     Outcomes(model.accepts, e2)) IN
               /\ X_test' = Some(m.X_test)
               /\ y_test' = Some(m.y_test)
               /\ fit_quality' = m.fit_quality
               /\ model_fit_quality' = m.model_fit_quality
               /\ ret' = IF m.raised = None
                         THEN Returned("measure_fit_quality", None)
                         ELSE Raised("measure_fit_quality", m.raised[1])
               /\ log' = m.log
               /\ stdout' = IF m.raised = None
                            THEN <<m.model_fit_quality, m.fit_quality>>
                            ELSE <<>>
               /\ measured' = (measured \/ m.raised = None)
               /\ UNCHANGED <<model, symbolic_model, X_explain, has_been_fit,
                              explanation, records>>
        ELSE CalledBeforeFit("measure_fit_quality", "MeasureFitQualityCalledBeforeFit")

----------------------------------------------------------------------------
(* SymbolicPursuitExplanation *)

SymbolicPursuitExplanation_swapped(expression, projections, x0, feature_importance, taylor_expansion, mfq, fq) ==
    [expression |-> expression, projections |-> projections, x0 |-> x0,
     feature_importance |-> feature_importance,
     taylor_expansion |-> taylor_expansion,
     model_fit_quality |-> fq, fit_quality |-> mfq]

SymbolicPursuitExplanation_misplaced(expression, projections, x0, feature_importance, taylor_expansion, mfq, fq) ==
    [expression |-> projections, projections |-> expression, x0 |-> x0,
     feature_importance |-> feature_importance,
     taylor_expansion |-> taylor_expansion,
     model_fit_quality |-> mfq, fit_quality |-> fq]

\* SymbolicPursuitExplanation.__init__: the fields of a new record
SymbolicPursuitExplanation(expression, projections, x0, feature_importance, taylor_expansion, mfq, fq) ==
    [expression |-> expression, projections |-> projections, x0 |-> x0,
     feature_importance |-> feature_importance,
     taylor_expansion |-> taylor_expansion,
     model_fit_quality |-> mfq, fit_quality |-> fq]

----------------------------------------------------------------------------
(* SymbolicPursuitExplainer.explain *)

\* the read-only accessors of the surrogate, as functions of its fitted state
get_expression == <<"expression", symbolic_model.version>>
get_projections == <<"projections", symbolic_model.version>>
get_feature_importance(x0) == <<"feature_importance", symbolic_model.version, x0>>
get_taylor(x0, order) == <<"taylor", symbolic_model.version, x0, order>>

\* the accessor calls of explain, in the order they are made
Accessors == <<"get_expression", "get_projections", "get_feature_importance",
               "get_taylor">>

\* the accessor calls made when the k-th raises (k = 0: none raises)
accessor_log(k) ==
    [i \in 1..(IF k = 0 THEN Len(Accessors) ELSE k) |->
        Event(Accessors[i], "", IF i = k THEN "ValueError" ELSE "ok")]

explain_assign_in_place(recs, rec) ==
    IF recs = <<>>
    THEN [records |-> <<rec>>, explanation |-> 1]
    ELSE [records |-> [recs EXCEPT ![Len(recs)] = rec], explanation |-> Len(recs)]

\* `self.explanation = SymbolicPursuitExplanation(...)`: a new object is
\* created and self.explanation refers to it
explain_assign(recs, rec) ==
    [records |-> Append(recs, rec), explanation |-> Len(recs) + 1]

explain_raise_cleared(recs, cur) == [records |-> <<>>, explanation |-> 0]

\* an accessor raises: the assignment to self.explanation is not reached
explain_raise(recs, cur) == [records |-> recs, explanation |-> cur]

\* the objects still referenced after the assignment: the new record, and the
\* earlier ones when the caller has kept them
referenced(a, keep) ==
    IF keep THEN a
    ELSE [records |-> <<a.records[a.explanation]>>, explanation |-> 1]

explain(x0, taylor_expansion_order, keep) ==
    \E k \in 0..Len(Accessors) :
        IF has_been_fit
        THEN IF k = 0
             THEN LET rec == SymbolicPursuitExplanation(
                                 get_expression, get_projections, x0,
                                 get_feature_importance(x0),
                                 get_taylor(x0, taylor_expansion_order),
                                 model_fit_quality, fit_quality)
                      a   == referenced(explain_assign(records, rec), keep)
                  IN
                  /\ keep => Len(records) < MaxRecords
                  /\ records' = a.records
                  /\ explanation' = a.explanation
                  /\ ret' = Returned("explain", Some(a.explanation))
                  /\ log' = accessor_log(0)
                  /\ stdout' = <<>>
                  /\ UNCHANGED <<model, symbolic_model, X_explain, has_been_fit,
                                 X_test, y_test, fit_quality, model_fit_quality,
                                 measured>>
             ELSE LET a == explain_raise(records, explanation) IN
                  /\ records' = a.records
                  /\ explanation' = a.explanation
                  /\ ret' = Raised("explain", "ValueError")
                  /\ log' = accessor_log(k)
                  /\ stdout' = <<>>
                  /\ UNCHANGED <<model, symbolic_model, X_explain, has_been_fit,
                                 X_test, y_test, fit_quality, model_fit_quality,
                                 measured>>
        ELSE CalledBeforeFit("explain", "ExplainCalledBeforeFit")

----------------------------------------------------------------------------
(* SymbolicPursuitExplainer.summary_plot *)

\* show = True renders self.explanation.expression and
\* self.explanation.projections (smp.preview may raise RuntimeError, which is
\* re-raised after the hint is printed); show = False prints
\* self.explanation.expression and calls symbolic_model.print_projections().
\* Without an explanation attribute the first access raises AttributeError.
\* The log tells the two branches apart.
summary_plot(show) ==
    /\ IF explanation = 0
       THEN /\ ret' = Raised("summary_plot", "AttributeError")
            /\ log' = <<>>
            /\ stdout' = <<>>
       ELSE IF show
       THEN \E render \in {"ok", "RuntimeError"} :
               /\ log' = <<Event("smp.preview", "", render)>>
               /\ IF render = "ok"
                  THEN /\ ret' = Returned("summary_plot", None)
                       /\ stdout' = <<records[explanation].expression,
                                      records[explanation].projections>>
                  ELSE /\ ret' = Raised("summary_plot", "RuntimeError")
                       /\ stdout' = <<<<"hint">>>>
       ELSE /\ ret' = Returned("summary_plot", None)
            /\ log' = <<Event("print", "", "ok"),
                        Event("symbolic_model.print_projections", "", "ok")>>
            /\ stdout' = <<records[explanation].expression, get_projections>>
    /\ UNCHANGED <<model, symbolic_model, X_explain, has_been_fit, X_test,
                   y_test, fit_quality, model_fit_quality, explanation,
                   records, measured>>

----------------------------------------------------------------------------
(* SymbolicPursuitExplainer.symbolic_predict *)

symbolic_predict_with_fallback(predict_array) ==
    \E e \in Accepted :
        LET r == predict_for(0, predict_array, predict_array,
                             Outcomes(symbolic_model.accepts, e),
                             "symbolic_model.predict", <<>>) IN
        /\ ret' = IF r.done
                  THEN Returned("symbolic_predict", Some(symbolic_model_predict(r.X)))
                  ELSE Raised("symbolic_predict",
                              IF r.raised = None THEN "TypeError" ELSE r.raised[1])
        /\ log' = r.log
        /\ stdout' = <<>>
        /\ UNCHANGED <<model, symbolic_model, X_explain, has_been_fit, X_test,
                       y_test, fit_quality, model_fit_quality, explanation,
                       records, measured>>

\* `return self.symbolic_model.predict(predict_array)`
symbolic_predict(predict_array) ==
    \E e \in Accepted :
        LET o == Outcomes(symbolic_model.accepts, e)[predict_array.rep] IN
        /\ ret' = IF o = "ok"
                  THEN Returned("symbolic_predict",
                                Some(symbolic_model_predict(predict_array)))
                  ELSE Raised("symbolic_predict", o)
        /\ log' = <<Event("symbolic_model.predict", predict_array.rep, o)>>
        /\ stdout' = <<>>
        /\ UNCHANGED <<model, symbolic_model, X_explain, has_been_fit, X_test,
                       y_test, fit_quality, model_fit_quality, explanation,
                       records, measured>>

----------------------------------------------------------------------------

(* The calls a caller makes.  Spec draws the environment in full (which
   representations the opaque model and the surrogate accept, the task type,
   the representation of the sample) and calls every method with both
   representations of a one-row batch.  Its caller keeps no record: the
   record a new explain replaces is no longer referenced. *)

\* the content of the batches handed to measure_fit_quality and
\* symbolic_predict: one row
TestData == {<<0>>}

Next ==
    \/ fit
    \/ \E rep \in Rep, xs \in TestData, ys \in TestData :
           measure_fit_quality(Batch(rep, xs), Batch(rep, ys))
    \/ \E x0 \in ReferencePoints, order \in Orders : explain(x0, order, FALSE)
    \/ \E show \in BOOLEAN : summary_plot(show)
    \/ \E rep \in Rep, xs \in TestData : symbolic_predict(Batch(rep, xs))

Spec == Init /\ [][Next]_vars

(* SpecRecords: the caller keeps every record explain returns, up to
   MaxRecords, and makes the calls that write the Explainer's attributes: fit,
   measure_fit_quality and explain.  The environment accepts both
   representations, so that every call can succeed. *)

InitRecords ==
    /\ Init
    /\ model.accepts = Rep
    /\ symbolic_model.accepts = Rep
    /\ symbolic_model.task_type = "regression"
    /\ X_explain.rep = "numeric"

NextRecords ==
    \/ fit
    \/ \E rep \in Rep, xs \in TestData, ys \in TestData :
           measure_fit_quality(Batch(rep, xs), Batch(rep, ys))
    \/ \E x0 \in ReferencePoints, order \in Orders : explain(x0, order, TRUE)

SpecRecords == InitRecords /\ [][NextRecords]_vars

(* SpecScores: the caller fits and measures with test batches of up to MaxLen
   rows and labels drawn from Labels, under both task types, so that the two
   scoring functions give different values.  The sample and the batches are
   plain-numeric, both collaborators accept both representations, and the
   rows of a batch are the feature values in turn. *)

InitScores ==
    /\ Init
    /\ model.accepts = Rep
    /\ symbolic_model.accepts = Rep
    /\ X_explain.rep = "numeric"

NextScores ==
    \/ fit
    \/ \E n \in 1..MaxLen :
         \E ys \in [1..n -> Labels] :
           measure_fit_quality(Batch("numeric", Rows(n)), Batch("numeric", ys))

SpecScores == InitScores /\ [][NextScores]_vars

----------------------------------------------------------------------------
(* Reading the log of the most recent call *)

\* the positions of the calls of `call` in a log
Calls(lg, call) == {i \in DOMAIN lg : lg[i].call = call}

\* the positions of the events with outcome `out` in a log
With(lg, out) == {i \in DOMAIN lg : lg[i].out = out}

Conversions(lg) == Calls(lg, "torch.Tensor")

\* the other representation
Alternate(rep) == IF rep = "numeric" THEN "tensor" ELSE "numeric"

\* what explain(x0, order) reads from the surrogate in the current state
ExplainFields(x0, order) ==
    <<get_expression, get_projections, get_feature_importance(x0),
      get_taylor(x0, order)>>

\* the four fields of a record that explain reads from the surrogate
RecordFields(rec) ==
    <<rec.expression, rec.projections, rec.feature_importance,
      rec.taylor_expansion>>

----------------------------------------------------------------------------
(* Claims *)

\* C1: when every surrogate-fit attempt of a fit() call on an unfit Explainer
\* fails with a representation mismatch, fit() raises that TypeError and the
\* Explainer stays unfit.
C1_RejectedTwiceRaises ==
    [][ ( /\ ret'.op = "fit"
          /\ ~has_been_fit
          /\ Calls(log', "symbolic_model.fit") # {}
          /\ \A i \in Calls(log', "symbolic_model.fit") : log'[i].out = "TypeError" )
        => ( /\ ret'.kind = "raise"
             /\ ret'.exc = "TypeError"
             /\ ~has_been_fit' ) ]_vars

\* C2: as long as no fit() has succeeded (the surrogate was never fitted),
\* measure_fit_quality and explain raise their ordering-violation error,
\* however many fit() calls have failed before.
C2_GatedUntilSuccessfulFit ==
    ( symbolic_model.version = 0 /\ ret.op \in {"measure_fit_quality", "explain"} )
    => ( /\ ret.kind = "raise"
         /\ ret.exc = IF ret.op = "explain" THEN "ExplainCalledBeforeFit"
                                           ELSE "MeasureFitQualityCalledBeforeFit" )

\* C3: once a fit() call has succeeded (the surrogate is fitted), the state
\* is fitted in every later state, whatever calls follow; no call takes the
\* state from fitted back to unfit.
C3_FittedForever ==
    /\ [] (symbolic_model.version # 0 => has_been_fit)
    /\ [][ has_been_fit => has_been_fit' ]_vars

\* C3 witness: a fit() call that fails after an earlier one succeeded.
C3_Witness ==
    /\ symbolic_model.version # 0
    /\ has_been_fit
    /\ ret.op = "fit"
    /\ ret.kind = "raise"

\* C4 as stated: when the first attempt is rejected and the opaque model accepts
\* only the alternate representation (and nothing else fails), fit() returns
\* after two attempts and one conversion, the state is fitted and the stored
\* sample is in the alternate representation.
C4_AlternateEitherWay ==
    ( /\ ret.op = "fit"
      /\ log # <<>>
      /\ log[1].out = "TypeError"
      /\ model.accepts = {Alternate(log[1].rep)}
      /\ With(log, "ValueError") = {} )
    => ( /\ ret.kind = "return"
         /\ Cardinality(Calls(log, "symbolic_model.fit")) = 2
         /\ Cardinality(Conversions(log)) = 1
         /\ has_been_fit
         /\ X_explain.rep = Alternate(log[1].rep) )

\* C4, amended: when the sample is plain-numeric, the opaque model accepts only
\* tensors and nothing else fails, fit() returns after exactly two attempts and
\* one conversion, the state is fitted and the stored sample is a tensor; a
\* stored tensor stays a tensor in every later state.
C4_NumericToTensor ==
    /\ [] ( ( /\ ret.op = "fit"
              /\ log # <<>>
              /\ log[1].rep = "numeric"
              /\ model.accepts = {"tensor"}
              /\ With(log, "ValueError") = {} )
            => ( /\ ret.kind = "return"
                 /\ Cardinality(Calls(log, "symbolic_model.fit")) = 2
                 /\ Cardinality(Conversions(log)) = 1
                 /\ log[2].call = "torch.Tensor"
                 /\ log[3].rep = "tensor"
                 /\ has_been_fit
                 /\ X_explain.rep = "tensor" ) )
    /\ [][ X_explain.rep = "tensor" => X_explain'.rep = "tensor" ]_vars

\* C4 witness: a fit() that was rejected on the plain-numeric sample and
\* succeeded on the tensor.
C4_Witness ==
    /\ ret.op = "fit"
    /\ ret.kind = "return"
    /\ Len(log) = 3
    /\ log[1].rep = "numeric" /\ log[1].out = "TypeError"
    /\ log[3].rep = "tensor" /\ log[3].out = "ok"
    /\ model.accepts = {"tensor"}
    /\ X_explain.rep = "tensor"
    /\ has_been_fit

\* C5: a failure of the surrogate fit that is not a representation mismatch
\* ends the fit() call where it occurs: no later attempt, no conversion after
\* it, the failure is raised to the caller and the call leaves the state flag
\* as it was.
C5_OtherFailuresPropagate ==
    [][ ( ret'.op = "fit" /\ With(log', "ValueError") # {} )
        => ( /\ With(log', "ValueError") = {Len(log')}
             /\ ret'.kind = "raise"
             /\ ret'.exc = "ValueError"
             /\ has_been_fit' = has_been_fit
             /\ Cardinality(Conversions(log')) = Cardinality(With(log', "TypeError"))
             /\ (log'[1].out = "ValueError" => X_explain' = X_explain)
             /\ symbolic_model' = symbolic_model ) ]_vars

\* C5 witness: an unfit Explainer whose first surrogate-fit attempt failed
\* with a failure of another kind.
C5_Witness ==
    /\ ret.op = "fit"
    /\ ret.kind = "raise"
    /\ ret.exc = "ValueError"
    /\ Len(log) = 1
    /\ ~has_been_fit

\* C6: in measure_fit_quality on a fitted Explainer a representation mismatch
\* is absorbed at most once per prediction call site: a second mismatch at the
\* same site is raised to the caller.
C6_SecondMismatchRaises ==
    ( /\ ret.op = "measure_fit_quality"
      /\ symbolic_model.version # 0
      /\ \E call \in {"symbolic_model.predict", "model"} :
            Cardinality(Calls(log, call) \cap With(log, "TypeError")) >= 2 )
    => ( ret.kind = "raise" /\ ret.exc = "TypeError" )

\* C7: while no measure_fit_quality call has returned normally, both stored
\* scores are None.
C7_NoneUntilMeasured ==
    ~measured => (fit_quality = None /\ model_fit_quality = None)

\* C8: when measure_fit_quality returns normally on a fitted Explainer, both
\* stored scores are the scores of this call's test batch.
C8_BothScoresFresh ==
    ( /\ ret.op = "measure_fit_quality"
      /\ ret.kind = "return"
      /\ symbolic_model.version # 0 )
    => ( /\ fit_quality =
              Some(score(symbolic_model.task_type, y_test[1],
                         symbolic_model_predict(X_test[1])))
         /\ model_fit_quality =
              Some(score(symbolic_model.task_type, y_test[1], model_call(X_test[1]))) )

\* C9: explain leaves the stored scores as they are, and the record it
\* returns carries exactly those scores.
C9_RecordCarriesStoredScores ==
    [][ ret'.op = "explain"
        => ( /\ fit_quality' = fit_quality
             /\ model_fit_quality' = model_fit_quality
             /\ ( ret'.kind = "return"
                  => ( /\ records'[ret'.val[1]].model_fit_quality = model_fit_quality
                       /\ records'[ret'.val[1]].fit_quality = fit_quality ) ) ) ]_vars

\* C9 witness: explain has returned a record while two different scores
\* are stored.
C9_Witness ==
    /\ ret.op = "explain"
    /\ ret.kind = "return"
    /\ fit_quality # None
    /\ model_fit_quality # None
    /\ fit_quality # model_fit_quality

\* C10: no call changes a record created earlier; a successful explain
\* creates a new record, which becomes the current one and is the one
\* returned, and no other call changes which record is current.
C10_RecordsIndependent ==
    [][ /\ \A i \in DOMAIN records : i \in DOMAIN records' /\ records'[i] = records[i]
        /\ IF ret'.op = "explain" /\ ret'.kind = "return"
           THEN /\ explanation' \notin DOMAIN records
                /\ explanation' \in DOMAIN records'
                /\ ret'.val = Some(explanation')
           ELSE explanation' = explanation ]_vars

\* C10 witness: two different records exist, the second one is current.
C10_Witness ==
    /\ Len(records) = 2
    /\ records[1] # records[2]
    /\ explanation = 2
    /\ ret.op = "explain"
    /\ ret.kind = "return"

C12_SameArgumentsSameFields ==
    \A i \in DOMAIN records, j \in DOMAIN records :
        ( /\ records[i].x0 = records[j].x0
          /\ records[i].taylor_expansion[4] = records[j].taylor_expansion[4] )
        => RecordFields(records[i]) = RecordFields(records[j])

\* C12, amended: the four fields of the record a successful explain(x0, order)
\* returns are what the surrogate's accessors give for (x0, order), and no
\* call other than fit() changes what they give; so two explain calls with the
\* same x0 and order and no fit() call between them return identical fields.
C12_SameFieldsUnlessRefit ==
    /\ [][ ( ret'.op = "explain" /\ ret'.kind = "return" )
           => \E order \in Orders :
                RecordFields(records'[explanation']) =
                    ExplainFields(records'[explanation'].x0, order) ]_vars
    /\ [][ ret'.op # "fit"
           => \A x0 \in ReferencePoints, order \in Orders :
                ExplainFields(x0, order)' = ExplainFields(x0, order) ]_vars
    /\ [][ ( /\ ret.op = "explain" /\ ret.kind = "return"
             /\ ret'.op = "explain" /\ ret'.kind = "return"
             /\ records'[explanation'].x0 = records[explanation].x0
             /\ records'[explanation'].taylor_expansion[4] =
                    records[explanation].taylor_expansion[4] )
           => RecordFields(records'[explanation']) =
                  RecordFields(records[explanation]) ]_vars

\* C12 witness: two records for the same x0 and order with identical fields,
\* made before and after a measure_fit_quality call that changed the scores.
C12_Witness ==
    /\ Len(records) = 2
    /\ ret.op = "explain"
    /\ ret.kind = "return"
    /\ records[1].x0 = records[2].x0
    /\ records[1].taylor_expansion[4] = records[2].taylor_expansion[4]
    /\ RecordFields(records[1]) = RecordFields(records[2])
    /\ records[1].fit_quality # records[2].fit_quality

\* C13: when the surrogate accepts exactly one representation and the opaque
\* model accepts exactly one, a measure_fit_quality call on a fitted Explainer
\* with a plain-numeric batch (and no failure of another kind) reaches an
\* accepted representation at each prediction call site within its first
\* attempt and one retry, and computes both scores.
C13_FallbacksIndependent ==
    ( /\ ret.op = "measure_fit_quality"
      /\ symbolic_model.version # 0
      /\ Cardinality(symbolic_model.accepts) = 1
      /\ Cardinality(model.accepts) = 1
      /\ log # <<>>
      /\ log[1].rep = "numeric"
      /\ With(log, "ValueError") = {} )
    => ( /\ ret.kind = "return"
         /\ \A call \in {"symbolic_model.predict", "model"} :
               /\ Calls(log, call) \cap With(log, "ok") # {}
               /\ Cardinality(Calls(log, call)) <= 2
         /\ fit_quality # None
         /\ model_fit_quality # None )

\* C14: summary_plot with show = False prints the expression and the
\* projections of the current record, the one made by the most recent explain,
\* whatever was called since.
C14_DumpsCurrentRecord ==
    ( /\ ret.op = "summary_plot"
      /\ ret.kind = "return"
      /\ Calls(log, "smp.preview") = {} )
    => stdout = <<records[explanation].expression,
                  records[explanation].projections>>

\* C15: every fit() call ends after at most two attempts of the surrogate fit
\* and at most one conversion of the stored sample, whatever the attempts do.
C15_BoundedFit ==
    ret.op = "fit"
    => ( /\ Cardinality(Calls(log, "symbolic_model.fit")) <= Retries
         /\ Cardinality(Conversions(log)) <= 1 )

\* C16: symbolic_predict makes exactly one call of the surrogate's predict, in
\* the representation it was handed, with no conversion and no retry, whether
\* or not the Explainer is fitted; what that call does is what the caller
\* gets (its predictions, or its failure, a representation mismatch
\* included); nothing of the Explainer changes.
C16_PredictPassThrough ==
    [][ ret'.op = "symbolic_predict"
        => ( /\ Len(log') = 1
             /\ log'[1].call = "symbolic_model.predict"
             /\ Conversions(log') = {}
             /\ IF log'[1].out = "ok"
                THEN /\ ret'.kind = "return"
                     /\ \E xs \in TestData :
                           ret'.val = Some(symbolic_model_predict(
                                              Batch(log'[1].rep, xs)))
                ELSE /\ ret'.kind = "raise"
                     /\ ret'.exc = log'[1].out
             /\ UNCHANGED <<model, symbolic_model, X_explain, has_been_fit,
                            X_test, y_test, fit_quality, model_fit_quality,
                            explanation, records>> ) ]_vars

\* C16 witness: symbolic_predict on an unfit Explainer, rejected by the
\* surrogate with a representation mismatch after one attempt.
C16_Witness ==
    /\ ret.op = "symbolic_predict"
    /\ ret.kind = "raise"
    /\ ret.exc = "TypeError"
    /\ ~has_been_fit
    /\ Len(log) = 1

\* C17: a measure_fit_quality or explain call that is rejected with its
\* ordering-violation error is made on an unfit Explainer, makes no call of the
\* surrogate or the opaque model, and leaves the state flag, the stored
\* sample, both scores, the current record and the stored test batch as they
\* were.
C17_RejectedCallChangesNothing ==
    [][ ( /\ ret'.kind = "raise"
          /\ ret'.exc \in {"MeasureFitQualityCalledBeforeFit",
                           "ExplainCalledBeforeFit"} )
        => ( /\ ~has_been_fit
             /\ ret'.op = IF ret'.exc = "ExplainCalledBeforeFit"
                          THEN "explain" ELSE "measure_fit_quality"
             /\ log' = <<>>
             /\ UNCHANGED <<has_been_fit, X_explain, fit_quality,
                            model_fit_quality, explanation, records, X_test,
                            y_test, symbolic_model, model>> ) ]_vars

\* C17 witness: a measure_fit_quality call rejected on an unfit Explainer
\* whose sample is still plain-numeric.
C17_Witness ==
    /\ ret.op = "measure_fit_quality"
    /\ ret.kind = "raise"
    /\ ret.exc = "MeasureFitQualityCalledBeforeFit"
    /\ ~has_been_fit
    /\ X_explain.rep = "numeric"
    /\ X_test = None

\* C18: when an accessor of the surrogate raises during explain on a fitted
\* Explainer, the call ends there and raises that failure, and the current
\* record and every other attribute of the Explainer are as before the call.
C18_FailedExplainKeepsRecord ==
    [][ ( ret'.op = "explain" /\ ret'.kind = "raise" /\ has_been_fit )
        => ( /\ ret'.exc = "ValueError"
             /\ With(log', "ValueError") = {Len(log')}
             /\ explanation' = explanation
             /\ records' = records
             /\ UNCHANGED <<has_been_fit, X_explain, fit_quality,
                            model_fit_quality, symbolic_model>> ) ]_vars

\* C18 witness: an explain call that failed in a later accessor, after
\* earlier ones had returned, while a record of an earlier explain is current.
C18_Witness ==
    /\ ret.op = "explain"
    /\ ret.kind = "raise"
    /\ ret.exc = "ValueError"
    /\ Len(log) >= 2
    /\ explanation # 0
    /\ records[explanation].expression = get_expression

====
